---- MODULE Spec2Model ----
(***************************************************************************)
(* Bit-level decoder of the 8086 MOV subset (src/parser.rs).               *)
(*                                                                         *)
(* A BitInput is the pair <<bytes, bit_offset>> of the source: the         *)
(* remaining byte slice and the bit offset inside its first byte.  Every   *)
(* parser is a pure function from a BitInput to a result record            *)
(*    [kind |-> "Ok",    rest |-> BitInput, out |-> value]                 *)
(*    [kind |-> "Err",   rest |-> BitInput, out |-> "Eof"]                 *)
(*    [kind |-> "Panic", rest |-> BitInput, out |-> message]               *)
(* where "Err" is winnow's Err(ErrMode::Backtrack(ErrorKind::Eof)) and     *)
(* "Panic" is a todo!()/assert! that unwinds out of parse_instruction.     *)
(*                                                                         *)
(* The state machine is the stream-decode loop the parser is written for:  *)
(* it calls parse_instruction on the current input and feeds the returned  *)
(* input to the next call until a call fails.                              *)
(***************************************************************************)
EXTENDS Integers, Sequences, FiniteSets, TLC

VARIABLES buf, input, pc, decoded, last

vars == <<buf, input, pc, decoded, last>>

-----------------------------------------------------------------------------
(* Bounds of the model *)

\* number of bytes that follow the two fully enumerated leading bytes
MaxTail == 2
\* longest buffer of the instruction streams
MaxStream == 5

(* Program constants *)

\* bits per byte (winnow::bits, const BYTE)
BYTE == 8

-----------------------------------------------------------------------------
(* Results *)

Ok(i, v) == [kind |-> "Ok", rest |-> i, out |-> v]

Err(i, k) == [kind |-> "Err", rest |-> i, out |-> k]

Panic(i, m) == [kind |-> "Panic", rest |-> i, out |-> m]

\* The({K(r) : r \in {p(i)}}) is `let r = p(i); K(r)`: p(i) is evaluated once
\* and K gets its value
The(S) == CHOOSE y \in S : TRUE

-----------------------------------------------------------------------------
(* winnow::bits::take, as used through take(4u8), take(3u8), take(2u8),    *)
(* take(8u8) and bool on a complete (non-partial) &[u8] stream.            *)

\* u8 arithmetic of `byte << offset >> offset`
MaskHigh(byte, offset) == ((byte * (2 ^ offset)) % 256) \div (2 ^ offset)

RECURSIVE TakeLoop(_, _, _, _, _)
\* the for loop over at most cnt + 1 bytes: <<acc, end_offset>>
TakeLoop(bytes, n, acc, offset, remaining) ==
    IF n = 0 \/ bytes = <<>> \/ remaining = 0
    THEN <<acc, 0>>
    ELSE LET byte == Head(bytes)
             val == IF offset = 0 THEN byte ELSE MaskHigh(byte, offset)
         IN  IF remaining < BYTE - offset
             THEN <<acc + (val \div (2 ^ (BYTE - offset - remaining))),
                    remaining + offset>>
             ELSE TakeLoop(Tail(bytes), n - 1,
                           acc + val * (2 ^ (remaining - (BYTE - offset))),
                           0, remaining - (BYTE - offset))

Take(i, count) ==
    LET bytes == i[1]
        bit_offset == i[2]
        cnt == (count + bit_offset) \div BYTE
    IN  IF count = 0 THEN Ok(i, 0)
        ELSE IF Len(bytes) * BYTE < count + bit_offset
        THEN Err(i, "Eof")
        ELSE LET r == TakeLoop(bytes, cnt + 1, 0, bit_offset, count)
             IN  Ok(<<SubSeq(bytes, cnt + 1, Len(bytes)), r[2]>>, r[1])

\* winnow::bits::bool: one bit, true iff it is set
BoolOf(r) == IF r.kind # "Ok" THEN r ELSE Ok(r.rest, r.out # 0)

Bool(i) == The({BoolOf(r) : r \in {Take(i, 1)}})

take_nibble(i) == Take(i, 4)

take_3bits(i) == Take(i, 3)

take_2bits(i) == Take(i, 2)

-----------------------------------------------------------------------------
(* The operand types of the crate *)

\* Register::word / Register::byte: one identity per (width, index)
RegisterWord(n) == <<"word", n>>

RegisterByte(n) == <<"byte", n>>

LocationReg(reg) == <<"Reg", reg>>

LocationAddr(eaddr) == <<"Addr", eaddr>>

SourceLoc(loc) == <<"Loc", loc>>

SourceImm(imm) == <<"Imm", imm>>

ImmediateByte(v) == <<"Byte", v>>

ImmediateWord(v) == <<"Word", v>>

EAddressBare(addr) == <<"Bare", addr>>

EAddressWithOffset(addr, imm) == <<"WithOffset", addr, imm>>

-----------------------------------------------------------------------------
(* The parsers.  Each `let (i, x) = p(i)?;` of the source is a pair of    *)
(* definitions: the call of p, and the rest of the function body applied   *)
(* to p's result, which returns an Err or a panic of p unchanged.          *)

\* Parser::map(take(3u8), if w_bit { Register::word } else { Register::byte })
RegOf(w_bit, r) ==
    IF r.kind # "Ok" THEN r
    ELSE Ok(r.rest, IF w_bit THEN RegisterWord(r.out) ELSE RegisterByte(r.out))

parse_reg(w_bit, i) == The({RegOf(w_bit, r) : r \in {Take(i, 3)}})

\* mutant of Word: the first byte read taken as the high-order byte
Word_bigEndian(low, high) == ((low * 256) % 65536) + high

\* let high = high << 8; let word = high + u16::from(low);
Word(low, high) == ((high * 256) % 65536) + low

\* mutant of ImmediateHigh: a missing high byte read as 0 instead of `?`
ImmediateHigh_lenient(lo, hi) ==
    IF hi.kind # "Ok" THEN Ok(hi.rest, ImmediateWord(lo.out))
    ELSE Ok(hi.rest, ImmediateWord(((hi.out * 256) % 65536) + lo.out))

\* parse_immediate after the second take(8u8)
ImmediateHigh(lo, hi) ==
    IF hi.kind # "Ok" THEN hi
    ELSE IF Word(lo.out, hi.out) > 65535
    THEN Panic(hi.rest, "attempt to add with overflow")
    ELSE Ok(hi.rest, ImmediateWord(Word(lo.out, hi.out)))

\* parse_immediate after the first take(8u8)
ImmediateLow(is_word, lo) ==
    IF lo.kind # "Ok" THEN lo
    ELSE IF ~is_word THEN Ok(lo.rest, ImmediateByte(lo.out))
    ELSE The({ImmediateHigh(lo, hi) : hi \in {Take(lo.rest, 8)}})

parse_immediate(i, is_word) ==
    The({ImmediateLow(is_word, lo) : lo \in {Take(i, 8)}})

\* the match of parse_addr
AddressOf(addr) ==
    CASE addr = 0 -> "BxSi"
      [] addr = 1 -> "BxDi"
      [] addr = 2 -> "BpSi"
      [] addr = 3 -> "BpDi"
      [] addr = 4 -> "Si"
      [] addr = 5 -> "Di"
      [] addr = 6 -> "Bp"
      [] OTHER -> "Bx"

AddrOf(r) == IF r.kind # "Ok" THEN r ELSE Ok(r.rest, AddressOf(r.out))

parse_addr(i) == The({AddrOf(r) : r \in {take_3bits(i)}})

WithOffsetOf(addr, imm) ==
    IF imm.kind # "Ok" THEN imm
    ELSE Ok(imm.rest, EAddressWithOffset(addr, imm.out))

\* mutant of parse_eaddr: is_word taken from mode == 0b01
parse_eaddr_widthSwapped(i, mode, addr) ==
    IF mode = 0 THEN Ok(i, EAddressBare(addr))
    ELSE The({WithOffsetOf(addr, imm) : imm \in {parse_immediate(i, mode = 1)}})

\* mutant of parse_eaddr: mode 00 with the BP combination read as a direct
\* 16-bit address
parse_eaddr_directAddress(i, mode, addr) ==
    IF mode = 0 /\ addr # "Bp" THEN Ok(i, EAddressBare(addr))
    ELSE The({WithOffsetOf(addr, imm) :
                 imm \in {parse_immediate(i, mode = 2 \/ mode = 0)}})

parse_eaddr(i, mode, addr) ==
    IF mode = 0 THEN Ok(i, EAddressBare(addr))
    ELSE The({WithOffsetOf(addr, imm) : imm \in {parse_immediate(i, mode = 2)}})

LocationRegOf(r) == IF r.kind # "Ok" THEN r ELSE Ok(r.rest, LocationReg(r.out))

LocationAddrOf(e) == IF e.kind # "Ok" THEN e ELSE Ok(e.rest, LocationAddr(e.out))

\* parse_rm after parse_addr
EAddrOf(mode, a) ==
    IF a.kind # "Ok" THEN a
    ELSE The({LocationAddrOf(e) : e \in {parse_eaddr(a.rest, mode, a.out)}})

parse_rm(mode, w_bit, i) ==
    IF ~(mode <= 3) THEN Panic(i, "assertion failed: mode <= 3")
    ELSE IF mode = 3
    THEN The({LocationRegOf(r) : r \in {parse_reg(w_bit, i)}})
    ELSE The({EAddrOf(mode, a) : a \in {parse_addr(i)}})

\* mutant of OpcodeOf: the two opcode-extension bits are not consumed
OpcodeOf_noExtensionBits(p) ==
    IF p.kind # "Ok" THEN p
    ELSE CASE p.out = 8 -> Ok(p.rest, "MovRegRM")
           [] p.out = 11 -> Ok(p.rest, "MovImmediateReg")
           [] p.out = 12 ->
                Panic(p.rest, "not yet implemented: Immediate to register/memory")
           [] p.out = 10 ->
                Panic(p.rest, "not yet implemented: Memory to/from accumulator")
           [] OTHER -> Ok(p.rest, "Unimplemented")

\* the 0b1000 arm of parse_opcode after take_2bits
MovRegRMOf(x) == IF x.kind # "Ok" THEN x ELSE Ok(x.rest, "MovRegRM")

\* the match of parse_opcode on the leading nibble
OpcodeOf(p) ==
    IF p.kind # "Ok" THEN p
    ELSE CASE p.out = 8 -> The({MovRegRMOf(x) : x \in {take_2bits(p.rest)}})
           [] p.out = 11 -> Ok(p.rest, "MovImmediateReg")
           [] p.out = 12 ->
                Panic(p.rest, "not yet implemented: Immediate to register/memory")
           [] p.out = 10 ->
                Panic(p.rest, "not yet implemented: Memory to/from accumulator")
           [] OTHER -> Ok(p.rest, "Unimplemented")

parse_opcode(i) == The({OpcodeOf(p) : p \in {take_nibble(i)}})

Instruction(opcode, destination, source) ==
    [_address |-> 0, _size |-> 0, operation |-> opcode,
     destination |-> destination, source |-> source]

\* mutant of Roles: the sense of the direction bit inverted
Roles_inverted(opcode, d_bit, reg, rm) ==
    IF ~d_bit
    THEN Instruction(opcode, LocationReg(reg), SourceLoc(rm))
    ELSE Instruction(opcode, rm, SourceLoc(LocationReg(reg)))

\* mutant of Roles: the direction bit ignored
Roles_ignoreD(opcode, d_bit, reg, rm) ==
    Instruction(opcode, LocationReg(reg), SourceLoc(rm))

\* if d_bit { (i, Location::Reg(reg), Source::Loc(rm)) }
\* else { (i, rm, Source::Loc(Location::Reg(reg))) }
Roles(opcode, d_bit, reg, rm) ==
    IF d_bit
    THEN Instruction(opcode, LocationReg(reg), SourceLoc(rm))
    ELSE Instruction(opcode, rm, SourceLoc(LocationReg(reg)))

\* the Op::MovRegRM arm, after parse_rm
MovRegRM_rm(opcode, d, reg, rm) ==
    IF rm.kind # "Ok" THEN rm
    ELSE Ok(rm.rest, Roles(opcode, d.out, reg.out, rm.out))

\* ... after parse_reg
MovRegRM_reg(opcode, d, w, m, reg) ==
    IF reg.kind # "Ok" THEN reg
    ELSE The({MovRegRM_rm(opcode, d, reg, rm) :
                 rm \in {parse_rm(m.out, w.out, reg.rest)}})

\* ... after take_2bits (mode)
MovRegRM_mode(opcode, d, w, m) ==
    IF m.kind # "Ok" THEN m
    ELSE The({MovRegRM_reg(opcode, d, w, m, reg) :
                 reg \in {parse_reg(w.out, m.rest)}})

\* ... after the second bool (is_word)
MovRegRM_w(opcode, d, w) ==
    IF w.kind # "Ok" THEN w
    ELSE The({MovRegRM_mode(opcode, d, w, m) : m \in {take_2bits(w.rest)}})

\* ... after the first bool (d_bit)
MovRegRM_d(opcode, d) ==
    IF d.kind # "Ok" THEN d
    ELSE The({MovRegRM_w(opcode, d, w) : w \in {Bool(d.rest)}})

\* the Op::MovRegRM arm
MovRegRMArm(opcode, i) == The({MovRegRM_d(opcode, d) : d \in {Bool(i)}})

\* the Op::MovImmediateReg arm, after parse_immediate
MovImmediateReg_val(opcode, reg, val) ==
    IF val.kind # "Ok" THEN val
    ELSE Ok(val.rest, Instruction(opcode, LocationReg(reg.out), SourceImm(val.out)))

\* ... after parse_reg
MovImmediateReg_reg(opcode, w, reg) ==
    IF reg.kind # "Ok" THEN reg
    ELSE The({MovImmediateReg_val(opcode, reg, val) :
                 val \in {parse_immediate(reg.rest, w.out)}})

\* ... after bool (is_word)
MovImmediateReg_w(opcode, w) ==
    IF w.kind # "Ok" THEN w
    ELSE The({MovImmediateReg_reg(opcode, w, reg) :
                 reg \in {parse_reg(w.out, w.rest)}})

\* the Op::MovImmediateReg arm
MovImmediateRegArm(opcode, i) ==
    The({MovImmediateReg_w(opcode, w) : w \in {Bool(i)}})

\* the match of parse_instruction on the opcode
Arm(op) ==
    IF op.kind # "Ok" THEN op
    ELSE CASE op.out = "MovRegRM" -> MovRegRMArm(op.out, op.rest)
           [] op.out = "MovImmediateReg" -> MovImmediateRegArm(op.out, op.rest)
           [] op.out = "MovImmediateRM" -> Panic(op.rest, "not yet implemented")
           [] OTHER -> Panic(op.rest, "not yet implemented")

\* mutant of parse_instruction: the input of the call returned in place of
\* the advanced one
Rewound(i, r) == IF r.kind # "Ok" THEN r ELSE Ok(i, r.out)

parse_instruction_noAdvance(i) ==
    The({Rewound(i, r) : r \in {The({Arm(op) : op \in {parse_opcode(i)}})}})

parse_instruction(i) == The({Arm(op) : op \in {parse_opcode(i)}})

-----------------------------------------------------------------------------
(* Inputs *)

Bytes == 0 .. 255

\* leading bytes: every d, w and extension bits of 1000, every w and reg of
\* 1011, and one byte for each other nibble
Heads == (128 .. 143) \cup (176 .. 191)
         \cup {n * 16 + 6 : n \in (0 .. 15) \ {8, 11}}

\* displacement and immediate bytes
TailBytes == {5, 255}

\* bytes of the instruction streams: 89 06 (mode 00, rm 110), 89 40 xx
\* (mode 01), 89 89 xx xx (mode 10), 89 FF (mode 11), B8 xx xx
StreamBytes == {137, 6, 184, 64, 255}

\* the sequences over S of length at most n
SeqsUpTo(S, n) == UNION {[1 .. k -> S] : k \in 0 .. n}

DecodeBufs == {<<h, m>> \o t : h \in Heads, m \in Bytes, t \in SeqsUpTo(TailBytes, MaxTail)}

StreamBufs == SeqsUpTo(StreamBytes, MaxStream)

\* byte offset of an input inside the buffer
Offset(b, i) == Len(b) - Len(i[1])

\* bits between two inputs of the same buffer
BitsBetween(a, b) == (Len(a[1]) * BYTE - a[2]) - (Len(b[1]) * BYTE - b[2])

-----------------------------------------------------------------------------
(* The stream-decode loop *)

NoResult == [kind |-> "None", rest |-> <<<<>>, 0>>, out |-> "none"]

\* before the caller has read the machine-code image
Init ==
    /\ buf = <<>>
    /\ input = <<<<>>, 0>>
    /\ pc = "start"
    /\ decoded = <<>>
    /\ last = NoResult

\* the caller hands the image b to the loop, which starts at its first bit
LoadFrom(bufs) ==
    /\ pc = "start"
    /\ \E b \in bufs :
          /\ buf' = b
          /\ input' = <<b, 0>>
    /\ pc' = "ready"
    /\ UNCHANGED <<decoded, last>>

Load == LoadFrom(DecodeBufs \cup StreamBufs)

LoadStream == LoadFrom(StreamBufs)

\* parse_instruction returns Ok((i, instruction)): the loop records the
\* instruction with the span it covers and continues at the returned input.
\* A buffer of n bytes holds fewer than n instructions; the record of the
\* decoded instructions is kept within that.
DecodeOk ==
    /\ pc = "ready"
    /\ Len(decoded) < Len(buf)
    /\ LET r == parse_instruction(input)
       IN  /\ r.kind = "Ok"
           /\ decoded' = Append(decoded,
                                [start |-> Offset(buf, input),
                                 end |-> Offset(buf, r.rest),
                                 bits |-> BitsBetween(input, r.rest),
                                 from |-> input,
                                 instr |-> r.out])
           /\ input' = r.rest
           /\ last' = r
    /\ UNCHANGED <<buf, pc>>

\* parse_instruction returns Err: the loop stops
DecodeErr ==
    /\ pc = "ready"
    /\ LET r == parse_instruction(input)
       IN  /\ r.kind = "Err"
           /\ last' = r
    /\ pc' = "failed"
    /\ UNCHANGED <<buf, input, decoded>>

\* parse_instruction panics: the process is aborted
DecodePanic ==
    /\ pc = "ready"
    /\ LET r == parse_instruction(input)
       IN  /\ r.kind = "Panic"
           /\ last' = r
    /\ pc' = "aborted"
    /\ UNCHANGED <<buf, input, decoded>>

Next == Load \/ DecodeOk \/ DecodeErr \/ DecodePanic

Spec == Init /\ [][Next]_vars

\* the loop over the instruction streams alone
NextStream == LoadStream \/ DecodeOk \/ DecodeErr \/ DecodePanic

\* the loop is a running program: it takes its next step whenever it has one
FairSpec == Init /\ [][NextStream]_vars /\ WF_vars(NextStream)

-----------------------------------------------------------------------------
(* The encoding, read off the raw bytes of an instruction (Intel 8086      *)
(* manual: 100010dw mod reg r/m (disp-lo) (disp-hi); 1011 w reg data)      *)

\* the last call of parse_instruction did not return an instruction
Stopped == pc \in {"failed", "aborted"}

Entries == {decoded[k] : k \in 1 .. Len(decoded)}

Nibble(i) == i[1][1] \div 16

DBit(i) == (i[1][1] \div 2) % 2

WBit(i) == i[1][1] % 2

ModeField(i) == i[1][2] \div 64

RegField(i) == (i[1][2] \div 8) % 8

RmField(i) == i[1][2] % 8

ImmW(i) == (i[1][1] \div 8) % 2

ImmReg(i) == i[1][1] % 8

IsRegRM(i) == Len(i[1]) >= 1 /\ Nibble(i) = 8

IsImmReg(i) == Len(i[1]) >= 1 /\ Nibble(i) = 11

ExpectedReg(w, n) == <<IF w = 1 THEN "word" ELSE "byte", n>>

AddressTable == <<"BxSi", "BxDi", "BpSi", "BpDi", "Si", "Di", "Bp", "Bx">>

DispBits(mode) == CASE mode = 1 -> 8 [] mode = 2 -> 16 [] OTHER -> 0

ExpectedRm(i) ==
    CASE ModeField(i) = 3 -> <<"Reg", ExpectedReg(WBit(i), RmField(i))>>
      [] ModeField(i) = 0 -> <<"Addr", <<"Bare", AddressTable[RmField(i) + 1]>>>>
      [] ModeField(i) = 1 ->
           <<"Addr", <<"WithOffset", AddressTable[RmField(i) + 1],
                       <<"Byte", i[1][3]>>>>>>
      [] OTHER ->
           <<"Addr", <<"WithOffset", AddressTable[RmField(i) + 1],
                       <<"Word", i[1][3] + 256 * i[1][4]>>>>>>

\* bits an instruction needs from its first byte on
RequiredBits(i) ==
    IF Len(i[1]) = 0 THEN 4
    ELSE IF Nibble(i) = 8
    THEN IF Len(i[1]) = 1 THEN 16 ELSE 16 + DispBits(ModeField(i))
    ELSE IF Nibble(i) = 11
    THEN IF ImmW(i) = 1 THEN 24 ELSE 16
    ELSE 4

\* the buffer ends before a field the decoder has to read
Short(i) ==
    /\ i[2] = 0
    /\ Len(i[1]) = 0 \/ Nibble(i) \in {8, 11}
    /\ Len(i[1]) * BYTE < RequiredBits(i)

\* the rm operand of a decoded reg/mem instruction
RmOperand(e) ==
    IF DBit(e.from) = 1 THEN e.instr.source[2] ELSE e.instr.destination

\* the same bytes with the d bit (bit 1 of the first byte) inverted
FlipD(i) ==
    <<[i[1] EXCEPT ![1] = IF DBit(i) = 1 THEN @ - 2 ELSE @ + 2], i[2]>>

-----------------------------------------------------------------------------
(* Claims *)

\* C1: for every leading nibble other than 1000 and 1011, parse_instruction
\* returns to the caller with a typed error (unimplemented variant for 1100
\* and 1010, unsupported opcode otherwise) and never aborts the process.
C1_TypedErrorNoAbort ==
    (Stopped /\ Len(input[1]) >= 1 /\ Nibble(input) \notin {8, 11})
        => /\ pc = "failed"
           /\ last.kind = "Err"
           /\ last.out = IF Nibble(input) \in {12, 10}
                         THEN "UnimplementedVariant" ELSE "UnsupportedOpcode"

\* C2: in the reg/mem family the direction bit assigns the roles: d = 1
\* makes the reg register (of width w) the destination and the rm location
\* the source, d = 0 makes the rm location the destination and the reg
\* register the source.
C2_DirectionRoles ==
    \A e \in Entries : IsRegRM(e.from) =>
        /\ e.instr.operation = "MovRegRM"
        /\ DBit(e.from) = 1 =>
             /\ e.instr.destination =
                    <<"Reg", ExpectedReg(WBit(e.from), RegField(e.from))>>
             /\ e.instr.source = <<"Loc", ExpectedRm(e.from)>>
        /\ DBit(e.from) = 0 =>
             /\ e.instr.destination = ExpectedRm(e.from)
             /\ e.instr.source =
                    <<"Loc", <<"Reg", ExpectedReg(WBit(e.from), RegField(e.from))>>>>

C2_Witness ==
    \E e \in Entries : IsRegRM(e.from) /\ DBit(e.from) = 0 /\ ModeField(e.from) = 1

\* C3: the rm operand follows the mode: mode 11 a register of width w and no
\* displacement, mode 00 Bare(address), mode 01 WithOffset(address, Byte)
\* with exactly 8 displacement bits, mode 10 WithOffset(address, Word) with
\* exactly 16, the field values 0..7 selecting BX+SI, BX+DI, BP+SI, BP+DI,
\* SI, DI, BP, BX.
C3_RmByMode ==
    \A e \in Entries : IsRegRM(e.from) =>
        /\ e.bits = 13 + 3 + DispBits(ModeField(e.from))
        /\ RmOperand(e) = ExpectedRm(e.from)

C3_Witness ==
    \E e \in Entries :
        IsRegRM(e.from) /\ ModeField(e.from) = 2 /\ RmField(e.from) = 7

\* C4: in the immediate-to-register family the destination is the register
\* of the 3-bit field with width w and the source an immediate of that
\* width: Byte(next byte) for w = 0, Word(low + (high << 8)) for w = 1 with
\* the first byte read as low, always within 0..65535.
C4_ImmediateToRegister ==
    \A e \in Entries : IsImmReg(e.from) =>
        /\ e.instr.operation = "MovImmediateReg"
        /\ e.instr.destination =
               <<"Reg", ExpectedReg(ImmW(e.from), ImmReg(e.from))>>
        /\ e.instr.source =
               IF ImmW(e.from) = 0
               THEN <<"Imm", <<"Byte", e.from[1][2]>>>>
               ELSE <<"Imm", <<"Word", e.from[1][2] + 256 * e.from[1][3]>>>>
        /\ e.instr.source[2][2] \in 0 .. 65535

C4_Witness ==
    \E e \in Entries :
        /\ IsImmReg(e.from) /\ ImmW(e.from) = 1
        /\ e.from[1][2] = 5 /\ e.from[1][3] = 255

\* C5: every instruction returned by a successful parse_instruction carries
\* its byte length (end cursor minus start cursor) and the byte address of
\* its first opcode byte.
C5_StampedLengthAndAddress ==
    \A e \in Entries :
        /\ e.instr._size = e.end - e.start
        /\ e.instr._address = e.start

\* C6: a successful decode from a byte-aligned cursor consumes the sum of
\* the field widths of its path (16, 24, 32 bits for reg/mem with mode 00 or
\* 11, 01, 10; 16, 24 for immediate-to-register with w = 0, 1), a whole
\* number of bytes; every cursor of the stream has bit offset 0 and the
\* instructions cover contiguous, non-overlapping byte spans.
C6_LengthConservation ==
    /\ input[2] = 0
    /\ \A e \in Entries :
        /\ e.from[2] = 0
        /\ IsRegRM(e.from) => e.bits = 16 + DispBits(ModeField(e.from))
        /\ IsImmReg(e.from) => e.bits = IF ImmW(e.from) = 1 THEN 24 ELSE 16
        /\ IsRegRM(e.from) \/ IsImmReg(e.from)
        /\ e.bits = BYTE * (e.end - e.start)
        /\ e.start < e.end
    /\ \A k \in 1 .. Len(decoded) :
        /\ decoded[k].start = IF k = 1 THEN 0 ELSE decoded[k - 1].end
        /\ \A j \in 1 .. Len(decoded) :
             j < k => decoded[j].end <= decoded[k].start
    /\ Offset(buf, input) = IF decoded = <<>> THEN 0 ELSE decoded[Len(decoded)].end

C6_Witness ==
    /\ Len(decoded) >= 2
    /\ decoded[1].bits # decoded[2].bits

\* C7: when the buffer ends before a required field is read in full,
\* parse_instruction returns the insufficient-input error and no
\* instruction; it does not panic.
C7_InsufficientInput ==
    /\ (Stopped /\ Short(input)) =>
          /\ pc = "failed"
          /\ last.kind = "Err"
          /\ last.out = "Eof"
    /\ \A e \in Entries : ~Short(e.from)

C7_Witness ==
    /\ pc = "failed"
    /\ Short(input)
    /\ Len(input[1]) = 3
    /\ Len(decoded) >= 1

\* C8: two reg/mem encodings that differ only in the d bit succeed or fail
\* together, consume the same number of bits, and the destination of one is
\* the source location of the other.
C8_DirectionSymmetry ==
    /\ \A e \in Entries : IsRegRM(e.from) =>
          /\ parse_instruction(FlipD(e.from)).kind = "Ok"
          /\ BitsBetween(FlipD(e.from), parse_instruction(FlipD(e.from)).rest)
                = e.bits
          /\ e.instr.source[1] = "Loc"
          /\ parse_instruction(FlipD(e.from)).out.destination = e.instr.source[2]
          /\ parse_instruction(FlipD(e.from)).out.source
                = <<"Loc", e.instr.destination>>
    /\ (Stopped /\ IsRegRM(input)) =>
          /\ parse_instruction(FlipD(input)).kind = last.kind
          /\ parse_instruction(FlipD(input)).out = last.out

C8_Witness ==
    \E e \in Entries :
        IsRegRM(e.from) /\ DBit(e.from) = 1 /\ ModeField(e.from) = 1

\* C9: mode 00 with rm field 110 has no direct-address special case: the rm
\* operand is Addr(Bare(Bp)), no displacement is consumed, the instruction
\* spans 2 bytes and the next decode starts at the two bytes that follow.
C9_NoDirectAddress ==
    \A k \in 1 .. Len(decoded) :
        (/\ IsRegRM(decoded[k].from)
         /\ ModeField(decoded[k].from) = 0
         /\ RmField(decoded[k].from) = 6) =>
            /\ RmOperand(decoded[k]) = <<"Addr", <<"Bare", "Bp">>>>
            /\ decoded[k].end = decoded[k].start + 2
            /\ (IF k < Len(decoded) THEN decoded[k + 1].from ELSE input)
                  = <<SubSeq(decoded[k].from[1], 3, Len(decoded[k].from[1])), 0>>

C9_Witness ==
    /\ Len(decoded) >= 2
    /\ IsRegRM(decoded[1].from)
    /\ ModeField(decoded[1].from) = 0
    /\ RmField(decoded[1].from) = 6
    /\ decoded[2].start = 2

\* C10: decoding terminates: a call consumes at most 32 bits, a successful
\* call advances the cursor by at least 16, and the stream-decode loop over
\* a finite buffer eventually stops (a call fails or aborts).
C10_Terminates ==
    /\ [](\A e \in Entries : e.bits >= 16 /\ e.bits <= 32)
    /\ [](BitsBetween(<<buf, 0>>, input) >= 16 * Len(decoded))
    /\ <>Stopped

C10_Witness ==
    /\ pc = "failed"
    /\ Len(decoded) >= 2
    /\ input[1] = <<>>

====
